---- MODULE Spec2Model ----
(***************************************************************************)
(* Model of src/main.cpp: a stopwatch (MM.SS) on a 4-digit common-anode    *)
(* 7-segment display driven through a 16-bit serial-in shift register,     *)
(* with a 1 s Ticker callback (updateTime), a reset button (s1), a         *)
(* show-analog button (s3) and a potentiometer.                            *)
(*                                                                         *)
(* Specifications:                                                         *)
(*   Spec        the whole firmware: main() interleaved with updateTime    *)
(*   SpecTime    updateTime called repeatedly from every counter state     *)
(*   SpecShift   writeToShiftRegister/shiftOut at pin level                *)
(*   SpecDisplay displayNumber called with arguments from bounded sets     *)
(*   SpecCall    the display branch of main for every ADC reading and      *)
(*               every state of the counters                               *)
(*   SpecPress   main() timed in ms during one press of the reset button   *)
(*   SpecLive    the whole firmware with fairness of the main thread       *)
(***************************************************************************)
EXTENDS Integers, Sequences, FiniteSets

----------------------------------------------------------------------------
(* Program constants *)

\* main.cpp:59  if (++seconds >= 60)
SecondsPerMinute == 60

\* main.cpp:61  if (++minutes >= 100) minutes = 0;
MinutesWrap == 100

\* main.cpp:71  for (int i = 7; ...) : index of the first bit shifted out
TopBit == 7

\* main.cpp:101  for (int i = 0; i < 4; ++i)
NumSlots == 4

\* main.cpp:122  timerTicker.attach(&updateTime, 1s);
TickerPeriodMs == 1000

\* main.cpp:128  ThisThread::sleep_for(200ms);
DebounceMs == 200

\* main.cpp:109  ThisThread::sleep_for(2ms);
SettleMs == 2

\* Timer callbacks that can run within one iteration of the main loop, at any
\* instruction boundary: an iteration lasts the debounce sleep plus one
\* settling sleep per slot (instruction times are negligible against the
\* Ticker period), and an interval of that length holds at most this many
\* period boundaries.
MaxTicksPerIteration == (DebounceMs + NumSlots * SettleMs) \div TickerPeriodMs + 1

(* Bounds of the model *)

\* SpecTime: number of consecutive updateTime calls explored.
MaxCalls == 60

----------------------------------------------------------------------------
(* Bit arithmetic on bytes and on the 16-bit register *)

Pow2(n) == 2 ^ n

\* (value >> i) & 0x01
Bit(value, i) == (value \div Pow2(i)) % 2

\* static_cast<uint8_t>(~x) for x in 0..255
Not8(x) == (-x - 1) % 256

\* const uint8_t digitPattern[10]: common-anode patterns (0 = segment on)
digitPattern ==
    << Not8(63), Not8(6), Not8(91), Not8(79), Not8(102),
       Not8(109), Not8(125), Not8(7), Not8(127), Not8(111) >>

\* mutant: slot numbers in place of one-hot masks
digitPos_index == << 0, 1, 2, 3 >>

\* const uint8_t digitPos[4] = { 0x01, 0x02, 0x04, 0x08 }
digitPos == << 1, 2, 4, 8 >>

VARIABLES
    seconds, minutes,   \* volatile int seconds, minutes
    hw,                 \* pins latchPin, clockPin, dataPin and the register
                        \* they drive: shift stage shiftReg, output latch outReg
    pc,                 \* position of the main thread
    ticks,              \* callbacks run in the current iteration of the main loop
    resetSeen,          \* main: value of !s1 polled in this iteration
    analogSeen,         \* main: value of !s3 polled in this iteration
    rdMin, rdSec,       \* main: values read from minutes / seconds at line 144
                        \*   (-1: not read yet)
    adcRaw,             \* main: potentiometer.read_u16() (-1: not sampled)
    number, showDecimal, decimalPos, i,   \* displayNumber: parameters, loop index
    segments, digit,    \* writeToShiftRegister: parameters
    value, bitIdx,      \* shiftOut: parameter, loop index
    byteNo,             \* writeToShiftRegister: 0 in the first shiftOut, 1 in the second
    held,               \* history: pairs <<minutes, seconds>> the counters held
                        \*   since the loop iteration began, kept until
                        \*   displayNumber has taken its argument
    shown,              \* history: values latched into outReg by the current
                        \*   displayNumber call, in order
    edges,              \* history: dataPin at each rising clock edge of the
                        \*   current shiftOut call
    clocked,            \* history: [data, latch] at each rising clock edge of
                        \*   the current writeToShiftRegister call
    falls,              \* history: falling clock edges of the current shiftOut call
    latches,            \* history: Len(clocked) at each rising latch edge of
                        \*   the current writeToShiftRegister call
    start,              \* SpecTime, SpecShift: the counters / the pin state
                        \*   before the operation under test
    calls,              \* SpecTime: calls of updateTime made
    elapsed,            \* SpecPress: ms since the press of s1 under observation
                        \*   began, stopped once the press is over (-1: no
                        \*   press is observed and time is not kept)
    pressLen,           \* SpecPress: ms for which s1 is held asserted
    resets              \* SpecPress: executions of seconds = minutes = 0
                        \*   (main.cpp:127) since the press began

vars == << seconds, minutes, hw, pc, ticks, resetSeen, analogSeen, rdMin, rdSec,
           adcRaw, number, showDecimal, decimalPos, i, segments, digit, value, bitIdx,
           byteNo, held, shown, edges, clocked, falls, latches, start, calls,
           elapsed, pressLen, resets >>

counterVars == << seconds, minutes >>
mainVars    == << resetSeen, analogSeen, rdMin, rdSec, adcRaw >>
dispVars    == << number, showDecimal, decimalPos, i >>
shiftVars   == << segments, digit, value, bitIdx, byteNo >>
pinHist     == << edges, clocked, falls, latches >>
timeHist    == << start, calls >>
pressVars   == << elapsed, pressLen, resets >>

----------------------------------------------------------------------------
(* The shift register driven by the three pins (main.cpp:7-10): a 16-bit   *)
(* serial-in stage clocked on the rising edge of SH_CP, copied to the      *)
(* output latch on the rising edge of ST_CP.                               *)

\* dataPin = v
PinData(h, v) == [h EXCEPT !.dataPin = v]

\* clockPin = v : a rising edge shifts dataPin into the shift stage
\* (g is the value of h, taken once)
PinClock(h, v) ==
    CHOOSE r \in
        { [g EXCEPT !.clockPin = v,
                    !.shiftReg = IF g.clockPin = 0 /\ v = 1
                                 THEN (g.shiftReg * 2 + g.dataPin) % 65536
                                 ELSE g.shiftReg] : g \in { h } } : TRUE

\* latchPin = v : a rising edge copies the shift stage to the outputs
PinLatch(h, v) ==
    CHOOSE r \in
        { [g EXCEPT !.latchPin = v,
                    !.outReg = IF g.latchPin = 0 /\ v = 1 THEN g.shiftReg
                               ELSE g.outReg] : g \in { h } } : TRUE

----------------------------------------------------------------------------
(* updateTime (main.cpp:58-63), the Ticker callback.  It runs in interrupt *)
(* context, so main() never observes its intermediate stores.              *)

\* mutant: minutes wraps at 60 like seconds
NextMinutes_wrap60(m) == IF m + 1 >= SecondsPerMinute THEN 0 ELSE m + 1

\* if (++minutes >= 100) minutes = 0;
NextMinutes(m) == IF m + 1 >= MinutesWrap THEN 0 ELSE m + 1

\* mutant: seconds wraps one call late (> instead of >=)
updateTime_gt ==
    IF seconds + 1 > SecondsPerMinute
    THEN /\ seconds' = 0
         /\ minutes' = NextMinutes(minutes)
    ELSE /\ seconds' = seconds + 1
         /\ minutes' = minutes

\* mutant: seconds wraps without carrying into minutes
updateTime_noCarry ==
    IF seconds + 1 >= SecondsPerMinute
    THEN /\ seconds' = 0
         /\ minutes' = minutes
    ELSE /\ seconds' = seconds + 1
         /\ minutes' = minutes

updateTime ==
    IF seconds + 1 >= SecondsPerMinute
    THEN /\ seconds' = 0
         /\ minutes' = NextMinutes(minutes)
    ELSE /\ seconds' = seconds + 1
         /\ minutes' = minutes

----------------------------------------------------------------------------
(* SpecTime: updateTime called MaxCalls times in a row from every counter  *)
(* state, nothing else running.                                            *)

IdleHw == [latchPin |-> 0, clockPin |-> 0, dataPin |-> 0, shiftReg |-> 0, outReg |-> 0]

InitIdle ==
    /\ ticks = 0
    /\ resetSeen = FALSE /\ analogSeen = FALSE /\ rdMin = -1 /\ rdSec = -1
    /\ adcRaw = -1
    /\ value = 0 /\ bitIdx = 0 /\ byteNo = 0
    /\ held = {} /\ shown = << >>
    /\ edges = << >> /\ clocked = << >> /\ falls = 0 /\ latches = << >>
    /\ elapsed = -1 /\ pressLen = 0 /\ resets = 0

InitTime ==
    /\ seconds \in 0 .. SecondsPerMinute - 1
    /\ minutes \in 0 .. MinutesWrap - 1
    /\ start = << minutes, seconds >>
    /\ calls = 0
    /\ pc = "isr"
    /\ hw = IdleHw
    /\ number = 0 /\ showDecimal = FALSE /\ decimalPos = 1 /\ i = 0
    /\ segments = 0 /\ digit = 0
    /\ InitIdle

TickCall ==
    /\ calls < MaxCalls
    /\ updateTime
    /\ calls' = calls + 1
    /\ UNCHANGED << hw, pc, ticks, mainVars, dispVars, shiftVars, held, shown,
                    pinHist, start, pressVars >>

NextTime == TickCall

SpecTime == InitTime /\ [][NextTime]_vars

----------------------------------------------------------------------------
(* IEEE-754 binary32 arithmetic, as the float expressions of main.cpp:135  *)
(* and main.cpp:138 evaluate: a positive float is [m, e] with value        *)
(* m * 2^e and 2^23 <= m < 2^24; zero is [m |-> 0, e |-> 0].  Results are   *)
(* rounded to nearest, ties to even.  Products are formed in 12-bit limbs  *)
(* so that no intermediate exceeds 31 bits.                                *)

F32Zero == [m |-> 0, e |-> 0]

RECURSIVE F32Normalize(_, _)
F32Normalize(m, e) ==
    IF m = 0 THEN F32Zero
    ELSE IF m < 8388608 THEN F32Normalize(m * 2, e - 1)
    ELSE [m |-> m, e |-> e]

\* int -> float, exact for 0 <= n < 2^24
F32OfInt(n) == F32Normalize(n, 0)

\* round the 24-bit mantissa m up when the discarded part rem (out of unit)
\* is more than half, or exactly half with m odd
F32Round(m, e, rem, unit) ==
    LET up == (2 * rem > unit) \/ (2 * rem = unit /\ m % 2 = 1)
        m1 == IF up THEN m + 1 ELSE m
    IN  IF m1 = 16777216 THEN [m |-> 8388608, e |-> e + 1] ELSE [m |-> m1, e |-> e]

F32Mul(a, b) ==
    IF a.m = 0 \/ b.m = 0 THEN F32Zero
    ELSE
    LET a1 == a.m \div 4096    a0 == a.m % 4096
        b1 == b.m \div 4096    b0 == b.m % 4096
        t0 == a0 * b0
        t1 == a1 * b0 + a0 * b1 + (t0 \div 4096)
        hi == a1 * b1 + (t1 \div 4096)                  \* product div 2^24
        lo == (t1 % 4096) * 4096 + (t0 % 4096)          \* product mod 2^24
    IN  IF hi >= 8388608
        THEN F32Round(hi, a.e + b.e + 24, lo \div 2, 8388608)
        ELSE F32Round(hi * 2 + (lo \div 8388608), a.e + b.e + 23,
                      lo % 8388608, 8388608)

\* n more quotient bits of r / d by long division, r < d: << quotient, remainder >>
RECURSIVE LongDiv(_, _, _, _)
LongDiv(q, r, d, n) ==
    IF n = 0 THEN << q, r >>
    ELSE IF 2 * r >= d THEN LongDiv(2 * q + 1, 2 * r - d, d, n - 1)
    ELSE LongDiv(2 * q, 2 * r, d, n - 1)

F32Div(a, b) ==
    IF a.m = 0 THEN F32Zero
    ELSE
    LET n  == IF a.m >= b.m THEN 23 ELSE 24
        qr == LongDiv(a.m \div b.m, a.m % b.m, b.m, n)
    IN  F32Round(qr[1], a.e - b.e - n, qr[2], b.m)

\* static_cast<int>(f) for f >= 0: truncation toward zero
F32ToInt(a) ==
    IF a.m = 0 \/ a.e <= -24 THEN 0
    ELSE IF a.e < 0 THEN a.m \div Pow2(-a.e)
    ELSE a.m * Pow2(a.e)

\* the float literal 3.3f = 0x40533333
F32_3_3 == [m |-> 13841203, e |-> -22]

\* mutant: scaled by 2^16 instead of 2^16 - 1
Voltage_div65536(raw) == F32Div(F32Mul(F32OfInt(raw), F32_3_3), F32OfInt(65536))

\* float voltage = potentiometer.read_u16() * 3.3f / 65535;
Voltage(raw) == F32Div(F32Mul(F32OfInt(raw), F32_3_3), F32OfInt(65535))

\* mutant: scaled to tenths of a millivolt
DisplayVal_x10000(raw) == F32ToInt(F32Mul(Voltage(raw), F32OfInt(10000)))

\* int displayVal = static_cast<int>(voltage * 1000);
DisplayVal(raw) == F32ToInt(F32Mul(Voltage(raw), F32OfInt(1000)))

----------------------------------------------------------------------------
(* shiftOut and writeToShiftRegister (main.cpp:70-84) as functions on the  *)
(* pin/register state: every pin write of the code, in order.              *)

\* mutant: least significant bit first
DataBit_lsb(v, k) == Bit(v, TopBit - k)

\* main.cpp:72  (value >> i) & 0x01
DataBit(v, k) == Bit(v, k)

\* one pass of the loop body of shiftOut, main.cpp:72-74
ShiftBit(h, v, k) ==
    LET h1 == PinData(h, DataBit(v, k)) \* dataPin = (value >> i) & 0x01;
        h2 == PinClock(h1, 1)           \* clockPin = 1;
    IN  PinClock(h2, 0)                 \* clockPin = 0;

\* for (int i = k; i >= 0; --i) { ... }
RECURSIVE ShiftOutFrom(_, _, _)
ShiftOutFrom(h, v, k) ==
    IF k < 0 THEN h
    ELSE LET h1 == ShiftBit(h, v, k)
         IN  ShiftOutFrom(h1, v, k - 1)

shiftOut(h, v) == ShiftOutFrom(h, v, TopBit)

writeToShiftRegister(h, sg, dg) ==
    LET h1 == PinLatch(h, 0)            \* latchPin = 0;
        h2 == shiftOut(h1, sg)          \* shiftOut(segments);
        h3 == shiftOut(h2, dg)          \* shiftOut(digit);
    IN  PinLatch(h3, 1)                 \* latchPin = 1;

----------------------------------------------------------------------------
(* displayNumber (main.cpp:91-111) *)

\* mutant: hundreds and tens exchanged
Digits_swapped(n) ==
    << (n \div 1000) % 10, (n \div 10) % 10, (n \div 100) % 10, n % 10 >>

\* int digits[4] = { (number / 1000) % 10, ... , number % 10 }, number >= 0
Digits(n) ==
    << (n \div 1000) % 10, (n \div 100) % 10, (n \div 10) % 10, n % 10 >>

\* segments &= ~0x80
ClearDp(sg) == sg - 128 * Bit(sg, 7)

\* mutant: the decimal point is put on every slot when requested
SlotSegments_allDp(n, sd, dp, k) ==
    LET sg == digitPattern[Digits(n)[k + 1] + 1]
    IN  IF sd THEN ClearDp(sg) ELSE sg

\* main.cpp:102-106: the segment byte of slot k
SlotSegments(n, sd, dp, k) ==
    LET sg == digitPattern[Digits(n)[k + 1] + 1]
    IN  IF sd /\ k = dp THEN ClearDp(sg) ELSE sg

\* ThisThread::sleep_for(d): d ms pass.  Time is kept only while a press of
\* s1 is observed and has not ended.
Advance(t, d) == IF t < 0 \/ t >= pressLen THEN t ELSE t + d

\* one pass of the loop of displayNumber, main.cpp:101-110: the segment byte
\* of slot i, the write, the 2 ms sleep, ++i and the loop test.  The callback may run between two passes.
DisplaySlot ==
    /\ pc = "slot"
    /\ hw' = writeToShiftRegister(hw, SlotSegments(number, showDecimal, decimalPos, i),
                                  digitPos[i + 1])
    /\ shown' = Append(shown, hw'.outReg)
    /\ i' = i + 1
    /\ pc' = IF i + 1 < NumSlots THEN "slot" ELSE "ret"
    /\ held' = {}
    /\ elapsed' = Advance(elapsed, SettleMs)
    /\ UNCHANGED << counterVars, ticks, mainVars, number, showDecimal, decimalPos,
                    shiftVars, pinHist, timeHist, pressLen, resets >>

----------------------------------------------------------------------------
(* main (main.cpp:117-150) and the Ticker callback preempting it *)

\* Contents of the register stages at power-on are not set by the program.
PowerOnRegs == { 0, 65535 }

\* ADC readings explored
RawSamples == { 0, 13107, 65535 }

\* main.cpp:119-122; seconds = minutes = 0 from main.cpp:50
Init ==
    /\ seconds = 0 /\ minutes = 0
    /\ hw \in [latchPin : {0}, clockPin : {0}, dataPin : {0},
               shiftReg : PowerOnRegs, outReg : PowerOnRegs]
    /\ pc = "poll_s1"
    /\ ticks = 0
    /\ resetSeen = FALSE /\ analogSeen = FALSE /\ rdMin = -1 /\ rdSec = -1
    /\ adcRaw = -1
    /\ number = 0 /\ showDecimal = FALSE /\ decimalPos = 1 /\ i = 0
    /\ segments = 0 /\ digit = 0 /\ value = 0 /\ bitIdx = 0 /\ byteNo = 0
    /\ held = { << 0, 0 >> } /\ shown = << >>
    /\ edges = << >> /\ clocked = << >> /\ falls = 0 /\ latches = << >>
    /\ start = << >> /\ calls = 0
    /\ elapsed = -1 /\ pressLen = 0 /\ resets = 0

\* mutant: the stopwatch stands still while the analog value is displayed
Tick_pausedInAnalog ==
    /\ ticks < MaxTicksPerIteration
    /\ IF analogSeen THEN UNCHANGED counterVars ELSE updateTime
    /\ ticks' = ticks + 1
    /\ held' = IF held = {} THEN {} ELSE held \cup { << minutes', seconds' >> }
    /\ UNCHANGED << hw, pc, mainVars, dispVars, shiftVars, shown, pinHist, timeHist, pressVars >>

\* the Ticker interrupt: updateTime runs to completion between two steps of main
Tick ==
    /\ ticks < MaxTicksPerIteration
    /\ updateTime
    /\ ticks' = ticks + 1
    /\ held' = IF held = {} THEN {} ELSE held \cup { << minutes', seconds' >> }
    /\ UNCHANGED << hw, pc, mainVars, dispVars, shiftVars, shown, pinHist, timeHist, pressVars >>

\* the values !s1 can have: any while no press is observed, else asserted
\* exactly during the first pressLen ms
S1Levels == IF elapsed < 0 THEN BOOLEAN ELSE { elapsed < pressLen }

\* main.cpp:126  if (!s1)
PollS1 ==
    /\ pc = "poll_s1"
    /\ \E pressed \in S1Levels :
          /\ resetSeen' = pressed
          /\ pc' = IF pressed THEN "rst_min" ELSE "poll_s3"
    /\ UNCHANGED << counterVars, hw, ticks, analogSeen, rdMin, rdSec, adcRaw,
                    dispVars, shiftVars, held, shown, pinHist, timeHist, pressVars >>

\* main.cpp:127  seconds = minutes = 0;  the inner assignment: store to minutes
ResetMinutes ==
    /\ pc = "rst_min"
    /\ minutes' = 0
    /\ held' = held \cup { << 0, seconds >> }
    /\ pc' = "rst_sec"
    /\ UNCHANGED << seconds, hw, ticks, mainVars, dispVars, shiftVars, shown,
                    pinHist, timeHist, pressVars >>

\* main.cpp:127  the outer assignment: store to seconds.  The value stored is
\* the value of (minutes = 0): the 0 just assigned, or, minutes being
\* volatile, the result of reading minutes again, as the compiler chooses.
ResetValues == { 0, minutes }

ResetSeconds ==
    /\ pc = "rst_sec"
    /\ \E v \in ResetValues :
          /\ seconds' = v
          /\ held' = held \cup { << minutes, v >> }
    /\ resets' = IF elapsed < 0 THEN resets ELSE resets + 1
    /\ pc' = "debounce"
    /\ UNCHANGED << minutes, hw, ticks, mainVars, dispVars, shiftVars, shown,
                    pinHist, timeHist, elapsed, pressLen >>

\* mutant: the reset branch ends the iteration (continue) after its sleep
Debounce_continue ==
    /\ pc = "debounce"
    /\ pc' = "poll_s1"
    /\ elapsed' = Advance(elapsed, DebounceMs)
    /\ UNCHANGED << counterVars, hw, ticks, mainVars, dispVars, shiftVars, held,
                    shown, pinHist, timeHist, pressLen, resets >>

\* mutant: the debounce sleep left out
Debounce_noSleep ==
    /\ pc = "debounce"
    /\ pc' = "poll_s3"
    /\ UNCHANGED << counterVars, hw, ticks, mainVars, dispVars, shiftVars, held,
                    shown, pinHist, timeHist, pressVars >>

\* main.cpp:128  ThisThread::sleep_for(200ms);
Debounce ==
    /\ pc = "debounce"
    /\ pc' = "poll_s3"
    /\ elapsed' = Advance(elapsed, DebounceMs)
    /\ UNCHANGED << counterVars, hw, ticks, mainVars, dispVars, shiftVars, held,
                    shown, pinHist, timeHist, pressLen, resets >>

\* mutant: s3 taken as active high
PollS3_activeHigh ==
    /\ pc = "poll_s3"
    /\ \E pressed \in BOOLEAN :
          /\ analogSeen' = pressed
          /\ pc' = IF pressed THEN "rd1" ELSE "adc"
    /\ UNCHANGED << counterVars, hw, ticks, resetSeen, rdMin, rdSec, adcRaw,
                    dispVars, shiftVars, held, shown, pinHist, timeHist, pressVars >>

\* main.cpp:133  if (!s3)
PollS3 ==
    /\ pc = "poll_s3"
    /\ \E pressed \in BOOLEAN :
          /\ analogSeen' = pressed
          /\ pc' = IF pressed THEN "adc" ELSE "rd1"
    /\ UNCHANGED << counterVars, hw, ticks, resetSeen, rdMin, rdSec, adcRaw,
                    dispVars, shiftVars, held, shown, pinHist, timeHist, pressVars >>

\* main.cpp:135-141 with read_u16() returning raw: scale, call
\* displayNumber(displayVal, true, 0)
ShowAnalogOf(raw) ==
    /\ pc = "adc"
    /\ adcRaw' = raw
    /\ number' = DisplayVal(raw)
    /\ showDecimal' = TRUE
    /\ decimalPos' = 0
    /\ i' = 0
    /\ pc' = "slot"
    /\ UNCHANGED << counterVars, hw, ticks, resetSeen, analogSeen, rdMin, rdSec,
                    shiftVars, held, shown, pinHist, timeHist, pressVars >>

ShowAnalog == pc = "adc" /\ \E raw \in RawSamples : ShowAnalogOf(raw)

\* main.cpp:144  minutes * 100 + seconds: the first of the two volatile reads;
\* the operands of + are read in either order
ReadFirst ==
    /\ pc = "rd1"
    /\ \/ rdMin' = minutes /\ rdSec' = rdSec
       \/ rdSec' = seconds /\ rdMin' = rdMin
    /\ pc' = "rd2"
    /\ UNCHANGED << counterVars, hw, ticks, resetSeen, analogSeen, adcRaw,
                    dispVars, shiftVars, held, shown, pinHist, timeHist, pressVars >>

\* mutant: the two counters exchanged in the combined value
ReadSecond_swapped ==
    /\ pc = "rd2"
    /\ rdMin' = IF rdMin = -1 THEN minutes ELSE rdMin
    /\ rdSec' = IF rdSec = -1 THEN seconds ELSE rdSec
    /\ number' = rdSec' * 100 + rdMin'
    /\ showDecimal' = TRUE
    /\ decimalPos' = 1
    /\ i' = 0
    /\ pc' = "slot"
    /\ UNCHANGED << counterVars, hw, ticks, resetSeen, analogSeen, adcRaw,
                    shiftVars, held, shown, pinHist, timeHist, pressVars >>

\* main.cpp:144-147: the second read, timeValue, call displayNumber(timeValue, true, 1)
ReadSecond ==
    /\ pc = "rd2"
    /\ rdMin' = IF rdMin = -1 THEN minutes ELSE rdMin
    /\ rdSec' = IF rdSec = -1 THEN seconds ELSE rdSec
    /\ number' = rdMin' * 100 + rdSec'
    /\ showDecimal' = TRUE
    /\ decimalPos' = 1
    /\ i' = 0
    /\ pc' = "slot"
    /\ UNCHANGED << counterVars, hw, ticks, resetSeen, analogSeen, adcRaw,
                    shiftVars, held, shown, pinHist, timeHist, pressVars >>

\* main.cpp:124,149: displayNumber has returned; back to the top of while (true)
LoopBack ==
    /\ pc = "ret"
    /\ pc' = "poll_s1"
    /\ ticks' = 0
    /\ resetSeen' = FALSE /\ analogSeen' = FALSE /\ rdMin' = -1 /\ rdSec' = -1
    /\ adcRaw' = -1
    /\ number' = 0 /\ showDecimal' = FALSE /\ decimalPos' = 1 /\ i' = 0
    /\ shown' = << >>
    /\ held' = { << minutes, seconds >> }
    /\ UNCHANGED << counterVars, hw, shiftVars, pinHist, timeHist, pressVars >>

Next ==
    \/ Tick
    \/ PollS1 \/ ResetMinutes \/ ResetSeconds \/ Debounce
    \/ PollS3 \/ ShowAnalog \/ ReadFirst \/ ReadSecond
    \/ DisplaySlot \/ LoopBack

Spec == Init /\ [][Next]_vars

\* the steps of the main thread
MainStep ==
    \/ PollS1 \/ ResetMinutes \/ ResetSeconds \/ Debounce
    \/ PollS3 \/ ShowAnalog \/ ReadFirst \/ ReadSecond
    \/ DisplaySlot \/ LoopBack

\* SpecLive: the whole firmware under the scheduling the platform gives.
\* The callback is explored while the stopwatch is below MaxLiveSeconds
\* (a reset starts it again from zero).
MaxLiveSeconds == 3

TickLive == minutes = 0 /\ seconds < MaxLiveSeconds /\ Tick

NextLive == TickLive \/ MainStep

\* main is the only thread and the callback returns, so main always gets to
\* take its next step: an instruction executes, a sleep_for ends
SpecLive == Init /\ [][NextLive]_vars /\ WF_vars(MainStep)

----------------------------------------------------------------------------
(* SpecCall: the display branch of one loop iteration (main.cpp:133-148)   *)
(* up to the return of displayNumber, with the callback preempting it:     *)
(* the analog branch for every 16-bit reading, the time branch from every  *)
(* state of the counters.                                                  *)

\* potentiometer.read_u16() returns an unsigned 16-bit sample
AdcRange == 0 .. Pow2(16) - 1

InitCall ==
    /\ \/ /\ pc = "adc" /\ analogSeen = TRUE
          /\ seconds = 0 /\ minutes = 0
       \/ /\ pc = "rd1" /\ analogSeen = FALSE
          /\ seconds \in 0 .. SecondsPerMinute - 1
          /\ minutes \in 0 .. MinutesWrap - 1
    /\ hw = IdleHw
    /\ ticks = 0
    /\ resetSeen = FALSE /\ rdMin = -1 /\ rdSec = -1 /\ adcRaw = -1
    /\ number = 0 /\ showDecimal = FALSE /\ decimalPos = 1 /\ i = 0
    /\ segments = 0 /\ digit = 0 /\ value = 0 /\ bitIdx = 0 /\ byteNo = 0
    /\ held = { << minutes, seconds >> } /\ shown = << >>
    /\ edges = << >> /\ clocked = << >> /\ falls = 0 /\ latches = << >>
    /\ start = << minutes, seconds >> /\ calls = 0
    /\ elapsed = -1 /\ pressLen = 0 /\ resets = 0

ShowAnalogAny == pc = "adc" /\ \E raw \in AdcRange : ShowAnalogOf(raw)

NextCall ==
    \/ Tick
    \/ ShowAnalogAny \/ ReadFirst \/ ReadSecond
    \/ DisplaySlot

SpecCall == InitCall /\ [][NextCall]_vars

----------------------------------------------------------------------------
(* SpecPress: main() alone, in time mode or analog mode, while s1 is       *)
(* pressed once: asserted from the instant observation begins for pressLen *)
(* ms, released afterwards.  The press begins when main is about to poll   *)
(* s1 or is about to write one of the four slots of a display pass.  Only  *)
(* the sleeps take time; instruction times are negligible against them.    *)

MaxPressMs == 450

\* the word latched for slot k of displayNumber(0, true, 1)
SlotWord(k) == SlotSegments(0, TRUE, 1, k) * 256 + digitPos[k + 1]

\* the pins and the register after slots 0 .. k-1 of displayNumber(0, true, 1):
\* as writeToShiftRegister leaves them for slot k-1
HwAfterSlots(k) ==
    IF k = 0 THEN IdleHw
    ELSE [latchPin |-> 1, clockPin |-> 0, dataPin |-> Bit(digitPos[k], 0),
          shiftReg |-> SlotWord(k - 1), outReg |-> SlotWord(k - 1)]

InitPress ==
    /\ seconds = 0 /\ minutes = 0
    /\ \/ /\ pc = "poll_s1" /\ i = 0
          /\ rdMin = -1 /\ rdSec = -1 /\ showDecimal = FALSE
       \/ /\ pc = "slot" /\ i \in 0 .. NumSlots - 1
          /\ rdMin = 0 /\ rdSec = 0 /\ showDecimal = TRUE
    /\ ticks = 0
    /\ resetSeen = FALSE /\ analogSeen = FALSE /\ adcRaw = -1
    /\ number = 0 /\ decimalPos = 1
    /\ segments = 0 /\ digit = 0 /\ value = 0 /\ bitIdx = 0 /\ byteNo = 0
    /\ hw = HwAfterSlots(i)
    /\ held = IF i = 0 THEN { << 0, 0 >> } ELSE {}
    /\ shown = [k \in 1 .. i |-> SlotWord(k - 1)]
    /\ edges = << >> /\ clocked = << >> /\ falls = 0 /\ latches = << >>
    /\ calls = 0
    /\ elapsed = 0 /\ resets = 0
    /\ pressLen \in 1 .. MaxPressMs
    /\ start = IF pc = "slot" THEN (NumSlots - i) * SettleMs ELSE 0

NextPress ==
    \/ PollS1 \/ ResetMinutes \/ ResetSeconds \/ Debounce
    \/ PollS3 \/ ShowAnalog \/ ReadFirst \/ ReadSecond
    \/ DisplaySlot \/ LoopBack

SpecPress == InitPress /\ [][NextPress]_vars

----------------------------------------------------------------------------
(* SpecDisplay: one call displayNumber(number, showDecimal, decimalPos)    *)
(* for every number up to MaxNumber and every decimal-point argument.      *)

MaxNumber == 12345

\* displayNumber(n) with the default arguments (false, 1), and
\* displayNumber(n, true, p) for every slot p
DecimalArgs == { << FALSE, 1 >> } \cup { << TRUE, p >> : p \in 0 .. NumSlots - 1 }

InitDisplay ==
    /\ number \in 0 .. MaxNumber
    /\ \E a \in DecimalArgs : showDecimal = a[1] /\ decimalPos = a[2]
    /\ i = 0
    /\ pc = "slot"
    /\ \E l \in { 0, 1 } : hw = [IdleHw EXCEPT !.latchPin = l]
    /\ seconds = 0 /\ minutes = 0
    /\ segments = 0 /\ digit = 0
    /\ start = << >> /\ calls = 0
    /\ InitIdle

NextDisplay == DisplaySlot

SpecDisplay == InitDisplay /\ [][NextDisplay]_vars

----------------------------------------------------------------------------
(* SpecShift: one call writeToShiftRegister(segments, digit) pin write by  *)
(* pin write, for every segment byte, from either latch level and from     *)
(* different register contents.                                            *)

\* digit-select bytes explored: digitPos and other bit patterns
DigitSamples == { 1, 2, 4, 8, 0, 165, 255 }

InitShift ==
    /\ segments \in 0 .. 255
    /\ digit \in DigitSamples
    /\ \E l \in { 0, 1 }, r \in PowerOnRegs :
          hw = [latchPin |-> l, clockPin |-> 0, dataPin |-> 0,
                shiftReg |-> r, outReg |-> r]
    /\ start = hw
    /\ pc = "w_latch_low"
    /\ seconds = 0 /\ minutes = 0
    /\ number = 0 /\ showDecimal = FALSE /\ decimalPos = 1 /\ i = 0
    /\ calls = 0
    /\ InitIdle

\* mutant: digit select shifted first, segments second
ShiftArg_swapped(b) == IF b = 0 THEN digit ELSE segments

\* main.cpp:81-82  shiftOut(segments); shiftOut(digit);
ShiftArg(b) == IF b = 0 THEN segments ELSE digit

\* main.cpp:80, and the call at main.cpp:81 entering the loop of shiftOut
WLatchLow ==
    /\ pc = "w_latch_low"
    /\ hw' = PinLatch(hw, 0)
    /\ byteNo' = 0
    /\ value' = ShiftArg(0)
    /\ bitIdx' = TopBit
    /\ edges' = << >> /\ falls' = 0
    /\ pc' = "so_data"
    /\ UNCHANGED << counterVars, ticks, mainVars, dispVars, segments, digit, held,
                    shown, clocked, latches, timeHist, pressVars >>

\* main.cpp:72  dataPin = (value >> i) & 0x01;
SoData ==
    /\ pc = "so_data"
    /\ hw' = PinData(hw, DataBit(value, bitIdx))
    /\ pc' = "so_clk_hi"
    /\ UNCHANGED << counterVars, ticks, mainVars, dispVars, shiftVars, held, shown,
                    pinHist, timeHist, pressVars >>

\* main.cpp:73  clockPin = 1;
SoClockHigh ==
    /\ pc = "so_clk_hi"
    /\ hw' = PinClock(hw, 1)
    /\ IF hw.clockPin = 0
       THEN /\ edges' = Append(edges, hw.dataPin)
            /\ clocked' = Append(clocked, [data |-> hw.dataPin, latch |-> hw.latchPin])
       ELSE UNCHANGED << edges, clocked >>
    /\ pc' = "so_clk_lo"
    /\ UNCHANGED << counterVars, ticks, mainVars, dispVars, shiftVars, held, shown,
                    falls, latches, timeHist, pressVars >>

\* main.cpp:71  i >= 0
LoopAgain(k) == k >= 0

\* main.cpp:74  clockPin = 0;  then --i and the loop test of main.cpp:71
SoClockLow ==
    /\ pc = "so_clk_lo"
    /\ hw' = PinClock(hw, 0)
    /\ falls' = IF hw.clockPin = 1 THEN falls + 1 ELSE falls
    /\ bitIdx' = bitIdx - 1
    /\ pc' = IF LoopAgain(bitIdx - 1) THEN "so_data" ELSE "so_ret"
    /\ UNCHANGED << counterVars, ticks, mainVars, dispVars, segments, digit, value,
                    byteNo, held, shown, edges, clocked, latches, timeHist, pressVars >>

\* shiftOut returns: to the call at main.cpp:82, or to main.cpp:83
SoReturn ==
    /\ pc = "so_ret"
    /\ IF byteNo = 0
       THEN /\ byteNo' = 1
            /\ value' = ShiftArg(1)
            /\ bitIdx' = TopBit
            /\ edges' = << >> /\ falls' = 0
            /\ pc' = "so_data"
       ELSE /\ pc' = "w_latch_high"
            /\ UNCHANGED << byteNo, value, bitIdx, edges, falls >>
    /\ UNCHANGED << counterVars, hw, ticks, mainVars, dispVars, segments, digit,
                    held, shown, clocked, latches, timeHist, pressVars >>

\* main.cpp:83  latchPin = 1;
WLatchHigh ==
    /\ pc = "w_latch_high"
    /\ hw' = PinLatch(hw, 1)
    /\ latches' = IF hw.latchPin = 0 THEN Append(latches, Len(clocked)) ELSE latches
    /\ pc' = "w_done"
    /\ UNCHANGED << counterVars, ticks, mainVars, dispVars, shiftVars, held, shown,
                    edges, clocked, falls, timeHist, pressVars >>

NextShift ==
    \/ WLatchLow \/ SoData \/ SoClockHigh \/ SoClockLow \/ SoReturn \/ WLatchHigh

SpecShift == InitShift /\ [][NextShift]_vars

----------------------------------------------------------------------------
(* Claims *)

\* the segment byte / digit-select byte of a value latched into outReg
SegByte(w) == w \div 256
SelByte(w) == w % 256

\* decimal digit k (0 = thousands .. 3 = units) of n mod 10000
DecDigit(n, k) == ((n % 10000) \div (10 ^ (3 - k))) % 10

\* C1: one call of updateTime from seconds in 0..59, minutes in 0..99: below
\* 59 seconds it adds one second and leaves minutes; at 59 seconds it sets
\* seconds to 0 and adds one minute, 99 minutes becoming 0; minutes becomes 0
\* only from 99.
C1_UpdateTimeStep ==
    [][ /\ (seconds < 59 => seconds' = seconds + 1 /\ minutes' = minutes)
        /\ (seconds = 59 /\ minutes < 99 => seconds' = 0 /\ minutes' = minutes + 1)
        /\ (seconds = 59 /\ minutes = 99 => seconds' = 0 /\ minutes' = 0)
        /\ (minutes' = 0 /\ minutes # 0 => minutes = 99) ]_vars

\* C1 witness: the call made from 59 min 59 s gave 60 min 0 s
C1_Witness ==
    calls = 1 /\ start = << 59, 59 >> /\ minutes = 60 /\ seconds = 0

\* C2: in every state main can observe, 0 <= seconds <= 59 and 0 <= minutes <= 99.
C2_CountersInRange ==
    /\ seconds \in 0 .. 59
    /\ minutes \in 0 .. 99

\* C2 witness: within one iteration without reset the callback took the
\* counters from 99 min 59 s to 0 min 0 s
C2_Witness ==
    /\ ~resetSeen
    /\ << 99, 59 >> \in held
    /\ minutes = 0 /\ seconds = 0

\* C3 as stated: after exactly 60 calls seconds is back at its starting value
\* and minutes is its starting value plus 1.
C3_Original ==
    calls = 60 => seconds = start[2] /\ minutes = start[1] + 1

\* C3 as amended: after exactly 60 calls seconds is back at its starting
\* value and minutes is its starting value plus 1, or 0 when it started at 99.
C3_SixtyCalls ==
    calls = 60 =>
        /\ seconds = start[2]
        /\ minutes = IF start[1] = 99 THEN 0 ELSE start[1] + 1

\* C3 witness: 60 calls from 99 min 17 s ended at 0 min 17 s
C3_Witness ==
    calls = 60 /\ start = << 99, 17 >> /\ minutes = 0 /\ seconds = 17

\* C4: when the store that completes seconds = minutes = 0 has been made
\* (main is about to start the debounce sleep), both counters are zero.
C4_ResetZeroes ==
    [][ pc = "rst_sec" /\ pc' = "debounce" => seconds' = 0 /\ minutes' = 0 ]_vars

\* C5: the value passed to displayNumber in time mode is m*100 + s for a pair
\* (m, s) the counters held at some instant of that loop iteration.
C5_NoTornRead ==
    pc = "slot" /\ i = 0 /\ ~analogSeen =>
        \E p \in held : number = p[1] * 100 + p[2]

\* C6 as stated: an iteration in which reset was seen asserted samples no
\* analog value, reads no time and makes no display pass; otherwise it
\* displays the analog reading if show-analog was asserted, else the time.
C6_Original ==
    /\ resetSeen => adcRaw = -1 /\ rdMin = -1 /\ rdSec = -1 /\ shown = << >>
    /\ shown # << >> /\ analogSeen => number = DisplayVal(adcRaw)
    /\ shown # << >> /\ ~analogSeen => number = rdMin * 100 + rdSec

\* C6 as amended: the counters are zeroed and the debounce sleep taken only
\* when reset was seen asserted; then every iteration, reset or not, makes
\* exactly one display pass: of the analog reading (decimal point on slot 0)
\* if show-analog was seen asserted, else of the time (decimal point on slot 1).
C6_Branches ==
    /\ pc \in { "rst_min", "rst_sec", "debounce" } => resetSeen
    /\ pc = "adc" => analogSeen
    /\ pc \in { "rd1", "rd2" } => ~analogSeen
    /\ pc = "slot" \/ pc = "ret" =>
          IF analogSeen
          THEN /\ adcRaw # -1 /\ rdMin = -1 /\ rdSec = -1
               /\ number = DisplayVal(adcRaw) /\ showDecimal /\ decimalPos = 0
          ELSE /\ adcRaw = -1 /\ rdMin # -1 /\ rdSec # -1
               /\ number = rdMin * 100 + rdSec /\ showDecimal /\ decimalPos = 1
    /\ pc = "slot" => Len(shown) = i /\ i < 4
    /\ pc = "ret" => Len(shown) = 4
    /\ pc \notin { "slot", "ret" } => shown = << >>

\* C6 witness: an iteration that saw reset asserted has completed a display
\* pass of the analog reading
C6_Witness ==
    pc = "ret" /\ resetSeen /\ analogSeen /\ Len(shown) = 4 /\ adcRaw = 65535

\* C7: when shiftOut(v) returns it has made exactly 8 clock pulses, the data
\* line at the k-th rising edge was bit 7-k of v, and the clock line is low;
\* the data line is set to the bit before each rising edge.
C7_ShiftOutMsbFirst ==
    /\ falls <= Len(edges) /\ Len(edges) <= falls + 1
    /\ \A k \in 1 .. Len(edges) : edges[k] = Bit(value, 8 - k)
    /\ pc = "so_clk_hi" => hw.dataPin = Bit(value, bitIdx) /\ hw.clockPin = 0
    /\ pc = "so_ret" => Len(edges) = 8 /\ falls = 8 /\ hw.clockPin = 0

\* C7 witness: shiftOut(0x16) has returned after the bits 0,0,0,1,0,1,1,0
C7_Witness ==
    /\ pc = "so_ret" /\ byteNo = 0 /\ value = 22
    /\ edges = << 0, 0, 0, 1, 0, 1, 1, 0 >>

\* C8: during writeToShiftRegister(segments, digit) the latch line is low at
\* every rising clock edge, the outputs keep their previous value until the
\* single rising latch edge, which comes after the 16th pulse; the 16 bits
\* clocked in are segments then digit, each MSB first, and the outputs then
\* hold exactly (segments, digit) whatever the register held before.
C8_LatchOnceAfterSixteen ==
    /\ \A k \in 1 .. Len(clocked) : clocked[k].latch = 0
    /\ pc \notin { "w_latch_low", "w_done" } => hw.latchPin = 0
    /\ pc # "w_done" => latches = << >> /\ hw.outReg = start.outReg
    /\ pc = "w_done" =>
          /\ latches = << 16 >>
          /\ Len(clocked) = 16
          /\ \A k \in 0 .. 7 : /\ clocked[k + 1].data = Bit(segments, 7 - k)
                               /\ clocked[k + 9].data = Bit(digit, 7 - k)
          /\ hw.latchPin = 1
          /\ SegByte(hw.outReg) = segments /\ SelByte(hw.outReg) = digit
          /\ hw = writeToShiftRegister(start, segments, digit)

\* C8 witness: a call with the latch high and all outputs high beforehand
\* has latched (0xF9, 0x02)
C8_Witness ==
    /\ pc = "w_done" /\ start.latchPin = 1 /\ start.outReg = 65535
    /\ segments = 249 /\ digit = 2
    /\ hw.outReg = 249 * 256 + 2

\* C9: displayNumber(number), number >= 0, drives slots 0..3 with the segment
\* patterns of the thousands, hundreds, tens and units digits of
\* number mod 10000; 1234 gives 1,2,3,4 and 12345 gives 2,3,4,5.
C9_DigitsInOrder ==
    /\ \A k \in 1 .. Len(shown) :
          SegByte(shown[k]) % 128 = digitPattern[DecDigit(number, k - 1) + 1] % 128
    /\ pc = "ret" => Len(shown) = 4
    /\ pc = "ret" /\ number = 1234 =>
          [k \in 1 .. 4 |-> SegByte(shown[k]) % 128] =
          << digitPattern[2] % 128, digitPattern[3] % 128,
             digitPattern[4] % 128, digitPattern[5] % 128 >>
    /\ pc = "ret" /\ number = 12345 =>
          [k \in 1 .. 4 |-> SegByte(shown[k]) % 128] =
          << digitPattern[3] % 128, digitPattern[4] % 128,
             digitPattern[5] % 128, digitPattern[6] % 128 >>

\* C9 witness: displayNumber(12345) has returned having shown 2,3,4,5
C9_Witness ==
    /\ pc = "ret" /\ number = 12345 /\ ~showDecimal
    /\ [k \in 1 .. 4 |-> SegByte(shown[k])] = << 164, 176, 153, 146 >>

\* C10: for number in 0..9999, displayNumber(number, true, p) latches bit 7
\* of the segment byte cleared for slot p only, set for the other slots, and
\* bits 0..6 of every slot are those of digitPattern for the slot's digit;
\* with showDecimal false bit 7 is set on all four slots.
C10_DecimalPoint ==
    pc = "ret" /\ number <= 9999 =>
        /\ Len(shown) = 4
        /\ \A k \in 0 .. 3 :
              /\ Bit(SegByte(shown[k + 1]), 7) =
                    IF showDecimal /\ k = decimalPos THEN 0 ELSE 1
              /\ SegByte(shown[k + 1]) % 128 =
                    digitPattern[DecDigit(number, k) + 1] % 128

\* C10 witness: displayNumber(9876, true, 2) has returned with the decimal
\* point lit on slot 2 and dark on slot 0
C10_Witness ==
    /\ pc = "ret" /\ number = 9876 /\ showDecimal /\ decimalPos = 2
    /\ Bit(SegByte(shown[3]), 7) = 0
    /\ Bit(SegByte(shown[1]), 7) = 1

\* the four segment bytes latched by a complete display pass
ShownSegs == [k \in 1 .. 4 |-> SegByte(shown[k])]

\* C11: in an iteration that displays the time, with the counters read as
\* rdMin in 0..99 and rdSec in 0..59, the pass latches on slots 0..3 the
\* patterns of the tens and units digits of rdMin and of rdSec, with the
\* decimal point lit on slot 1 only; the counters read after the tick from
\* 3 min 59 s, 4 and 0, are shown as 0,4,0,0 with the point after slot 1.
C11_TimeShownAsMMSS ==
    pc \in { "slot", "ret" } /\ ~analogSeen =>
        /\ rdMin \in 0 .. 99 /\ rdSec \in 0 .. 59
        /\ Len(shown) >= 1 => shown[1] = digitPattern[(rdMin \div 10) + 1] * 256 + 1
        /\ Len(shown) >= 2 =>
              shown[2] = (digitPattern[(rdMin % 10) + 1] - 128) * 256 + 2
        /\ Len(shown) >= 3 => shown[3] = digitPattern[(rdSec \div 10) + 1] * 256 + 4
        /\ Len(shown) >= 4 => shown[4] = digitPattern[(rdSec % 10) + 1] * 256 + 8
        /\ pc = "ret" => Len(shown) = 4
        /\ pc = "ret" /\ rdMin = 4 /\ rdSec = 0 => ShownSegs = << 192, 25, 192, 192 >>

\* C11 witness: the iteration in which the callback took the counters from
\* 3 min 59 s to 4 min 0 s has read them afterwards and shown 04.00
C11_Witness ==
    /\ pc = "ret" /\ ~analogSeen /\ ~resetSeen
    /\ ticks = 1 /\ minutes = 4 /\ seconds = 0
    /\ rdMin = 4 /\ rdSec = 0
    /\ ShownSegs = << 192, 25, 192, 192 >>

\* the segment bytes (decimal point off) of the four decimal digits of n
DigitSegs(n) == [k \in 1 .. 4 |-> digitPattern[DecDigit(n, k - 1) + 1]]

\* C12: in analog mode the value displayed is the truncation of
\* raw * 3.3f / 65535 * 1000 as the program's float arithmetic gives it, which
\* is 3300 for raw = 65535 and 0 for raw = 0, and the pass shows its four
\* digits with the decimal point lit on slot 0 only.
C12_VoltageScaling ==
    pc \in { "slot", "ret" } /\ analogSeen =>
        /\ showDecimal /\ decimalPos = 0
        /\ adcRaw = 65535 => number = 3300
        /\ adcRaw = 0 => number = 0
        /\ (adcRaw * 3300) \div 65535 - number \in { 0, 1 }
        /\ pc = "ret" =>
              ShownSegs = [DigitSegs(number) EXCEPT ![1] = @ - 128]

\* C12 witness: the full-scale reading has been shown as 3.300
C12_Witness ==
    /\ pc = "ret" /\ analogSeen /\ adcRaw = 65535 /\ number = 3300
    /\ ShownSegs = << 48, 176, 192, 192 >>

\* duration of a loop iteration that resets: the debounce sleep and the four
\* settling sleeps of the display pass
ResetIterationMs == DebounceMs + NumSlots * SettleMs

\* polls of s1 that fall while it is asserted, for a press of len ms whose
\* first poll comes first ms after it began
PollsAsserted(first, len) ==
    IF len <= first THEN 0 ELSE ((len - first - 1) \div ResetIterationMs) + 1

\* C13 as stated: once a single press is over, the zeroing assignment has
\* been executed exactly once since it began.
C13_Original ==
    elapsed >= 0 /\ elapsed >= pressLen => resets = 1

\* C13 as amended: a press that is still asserted at the first poll after it
\* began and released within the debounce sleep and display pass that follow
\* that poll (208 ms) executes the zeroing assignment exactly once; in
\* general the assignment is executed once for every poll that finds the
\* input asserted, one poll every 208 ms while it is held, and not at all
\* when the press ends before the first poll.
C13_DebouncedPress ==
    elapsed >= 0 =>
        /\ resets <= PollsAsserted(start, pressLen)
        /\ elapsed >= pressLen =>
              /\ resets = PollsAsserted(start, pressLen)
              /\ start < pressLen /\ pressLen <= start + ResetIterationMs => resets = 1
              /\ pressLen <= start => resets = 0
              /\ pressLen > start + ResetIterationMs => resets >= 2

\* C13 witness: a press begun during a display pass, first polled 4 ms later
\* and released after 150 ms, within the debounce sleep, has reset once and
\* been polled as released
C13_Witness ==
    /\ start = 4 /\ pressLen = 150 /\ elapsed >= pressLen
    /\ resets = 1
    /\ pc = "poll_s3" /\ ~resetSeen

\* the digit positions enabled by a digit-select byte
EnabledDigits(b) == { k \in 0 .. 7 : Bit(b, k) = 1 }

\* C14: a call of displayNumber makes exactly four writes, for slots 0..3 in
\* that order, the digit-select byte latched for slot k being 2^k; from the
\* first latch on, the digit-select byte on the outputs has exactly one bit
\* set, so exactly one digit position is enabled.
C14_OneHotSelect ==
    /\ \A k \in 1 .. Len(shown) : SelByte(shown[k]) = 2 ^ (k - 1)
    /\ pc = "slot" => Len(shown) = i /\ i < 4
    /\ pc = "ret" => Len(shown) = 4
    /\ pc \notin { "slot", "ret" } => shown = << >>
    /\ hw.latchPin = 0 => shown = << >> /\ hw.outReg \in PowerOnRegs
    /\ hw.latchPin = 1 =>
          /\ Cardinality(EnabledDigits(SelByte(hw.outReg))) = 1
          /\ EnabledDigits(SelByte(hw.outReg)) \subseteq 0 .. 3
    /\ shown # << >> => hw.latchPin = 1 /\ hw.outReg = shown[Len(shown)]

\* C14 witness: a display pass made after a reset has latched the selects
\* 1, 2, 4, 8 in order and leaves digit 3 alone enabled
C14_Witness ==
    /\ pc = "ret" /\ resetSeen
    /\ [k \in 1 .. 4 |-> SelByte(shown[k])] = << 1, 2, 4, 8 >>
    /\ EnabledDigits(SelByte(hw.outReg)) = { 3 }

\* C15: the number passed to displayNumber lies in 0..9999, at most 9959 in
\* time mode and at most 3300 in analog mode, for every reading 0..65535,
\* every state of the counters and every placement of the callback; so the
\* four indices into digitPattern lie in 0..9 and number has no digit above
\* the thousands for the modulo to drop.
C15_NumberInRange ==
    pc \in { "slot", "ret" } =>
        /\ number \in 0 .. 9999
        /\ analogSeen => adcRaw \in AdcRange /\ number <= 3300
        /\ ~analogSeen => number <= 9959
        /\ \A k \in 1 .. 4 : Digits(number)[k] \in 0 .. 9
        /\ number \div 1000 = Digits(number)[1]
        /\ number = 1000 * Digits(number)[1] + 100 * Digits(number)[2]
                    + 10 * Digits(number)[3] + Digits(number)[4]

\* C15 witness: the largest time value, read after the callback took the
\* counters from 99 min 58 s to 99 min 59 s, has been displayed
C15_Witness ==
    /\ pc = "ret" /\ ~analogSeen
    /\ start = << 99, 58 >> /\ ticks = 1
    /\ number = 9959
    /\ Len(shown) = 4

\* position in the body of while (true), main.cpp:124-149
Rank(p) ==
    CASE p = "poll_s1" -> 0
      [] p = "rst_min" -> 1
      [] p = "rst_sec" -> 2
      [] p = "debounce" -> 3
      [] p = "poll_s3" -> 4
      [] p = "adc" -> 5
      [] p = "rd1" -> 5
      [] p = "rd2" -> 6
      [] p = "slot" -> 7
      [] p = "ret" -> 8

\* C16: whatever the inputs, the loop keeps coming back to its top and
\* complete display passes (four slot writes) occur infinitely often; and from the end of one pass to the end of the next the
\* main thread only moves forward through the loop body, so it takes the
\* 200 ms debounce sleep at most once, and only after seeing reset asserted.
C16_PassesForever ==
    /\ []<>(pc = "ret" /\ Len(shown) = 4)
    /\ []<>(pc = "poll_s1")
    /\ [][ /\ pc' # pc => Rank(pc') > Rank(pc) \/ (pc = "ret" /\ pc' = "poll_s1")
           /\ pc = "slot" /\ pc' = "slot" /\ i' # i => i' = i + 1 /\ i' < 4
           /\ pc = "debounce" /\ pc' # pc => resetSeen /\ pc' = "poll_s3" ]_vars

\* C16 witness: an iteration that reset, slept the debounce interval and had
\* the callback run has completed its display pass
C16_Witness ==
    /\ pc = "ret" /\ resetSeen /\ ticks = 1 /\ Len(shown) = 4

\* the stopwatch reading one second after m min s s
OneSecondLater(m, s) == IF s = 59 THEN << (m + 1) % 100, 0 >> ELSE << m, s + 1 >>

\* C17: a step changes the counters only if it is a run of the callback or a
\* store of the reset branch (main.cpp:127); the analog branch and the
\* display pass with its register writes leave them unchanged; a run of the
\* callback changes no pin and moves the stopwatch on by exactly one second,
\* whether the analog value or the time is being displayed; the pins change
\* only in a write of the display pass.
C17_CounterFrame ==
    [][ /\ ticks' = ticks + 1 =>
              /\ << minutes', seconds' >> = OneSecondLater(minutes, seconds)
              /\ hw' = hw /\ pc' = pc /\ shown' = shown
        /\ ticks' # ticks + 1 /\ << minutes', seconds' >> # << minutes, seconds >> =>
              pc \in { "rst_min", "rst_sec" } /\ resetSeen
        /\ pc' # pc \/ i' # i =>
              /\ ticks' # ticks + 1
              /\ pc \notin { "rst_min", "rst_sec" } =>
                    minutes' = minutes /\ seconds' = seconds
        /\ hw' # hw => pc = "slot" /\ minutes' = minutes /\ seconds' = seconds ]_vars

\* C17 witness: in an iteration without reset that displays the analog value
\* the callback has run and the stopwatch reads one second
C17_Witness ==
    /\ pc = "slot" /\ i = 2 /\ analogSeen /\ ~resetSeen
    /\ ticks = 1 /\ minutes = 0 /\ seconds = 1

====
